---------------------------- MODULE Spec2Model ----------------------------
(***************************************************************************)
(* Model of the IO Store package codec of                                  *)
(* UtocEmulator/fileemu-utoc-stream-emulator/src/io_package.rs.            *)
(*                                                                         *)
(* Every Rust integer is a little-endian sequence of bytes of its own      *)
(* width (u32: 4 bytes, u64: 8 bytes), and the arithmetic below is done    *)
(* byte by byte with carry, so that truncation (`as u32`), wrap-around and *)
(* overflow are exactly those of the machine integers.                     *)
(***************************************************************************)
EXTENDS Integers, Sequences, FiniteSets, TLC

VARIABLES
    byte_order,       \* the type parameter E: byteorder::ByteOrder
    overflow_checks,  \* the build profile: TRUE panics on integer overflow, FALSE wraps
    writer,           \* the W: Write + Seek handed to to_buffer_store_entry
    base_offset,      \* to_buffer_store_entry's base_offset
    curr_offset,      \* the caller's u64 behind `curr_offset: &mut u64`
    calls,            \* history: one record per to_buffer_store_entry call
    city_hash,        \* cityhasher::hash, a function of the bytes hashed
    obj,              \* the object index codec: the stream and the last operation
    bundle,           \* the export bundle decoder: the stream and the last operation
    summary           \* the summary offsets and the last count derivation

vars == <<byte_order, overflow_checks, writer, base_offset, curr_offset, calls,
          city_hash, obj, bundle, summary>>

(***************************************************************************)
(* Machine integers as byte sequences, least significant byte first.       *)
(***************************************************************************)
Byte == 0..255

RECURSIVE FromNat(_, _)
FromNat(n, w) == IF w = 0 THEN <<>> ELSE <<n % 256>> \o FromNat(n \div 256, w - 1)

U32(n) == FromNat(n, 4)
U64(n) == FromNat(n, 8)

Reverse(s) == [i \in 1..Len(s) |-> s[Len(s) + 1 - i]]

Not(a) == [i \in 1..Len(a) |-> 255 - a[i]]

\* a + b + c over Len(a) bytes; the result has one more element, the carry out.
RECURSIVE AddRaw(_, _, _)
AddRaw(a, b, c) ==
    IF Len(a) = 0 THEN <<c>>
    ELSE LET s == a[1] + b[1] + c
         IN <<s % 256>> \o AddRaw(Tail(a), Tail(b), s \div 256)

\* Rust's a + b: the wrapped value and whether it overflowed.
OverflowingAdd(a, b) ==
    LET r == AddRaw(a, b, 0)
    IN [v |-> SubSeq(r, 1, Len(a)), overflow |-> r[Len(a) + 1] = 1]

\* Rust's a - b (unsigned): the wrapped value and whether it overflowed (a < b).
OverflowingSub(a, b) ==
    LET r == AddRaw(a, Not(b), 1)
    IN [v |-> SubSeq(r, 1, Len(a)), overflow |-> r[Len(a) + 1] = 0]

WrappingAdd(a, b) == OverflowingAdd(a, b).v
WrappingSub(a, b) == OverflowingSub(a, b).v
Lt(a, b) == OverflowingSub(a, b).overflow
Le(a, b) == ~Lt(b, a)

\* `x as u32` of a u64, and `x as u64` (or `as i64`, the value being below 2^63) of a u32.
AsU32(a) == SubSeq(a, 1, 4)
AsU64(a) == a \o <<0, 0, 0, 0>>

\* The bytes a write_uNN::<E> puts on the stream, and the value a read_uNN::<E> takes off it.
Encode(v, E) == IF E = "LittleEndian" THEN v ELSE Reverse(v)
Decode(bs, E) == IF E = "LittleEndian" THEN bs ELSE Reverse(bs)

(***************************************************************************)
(* The stream: a position and the bytes written so far (std::io::Cursor    *)
(* semantics for Seek), with a log of the write and seek calls made on it. *)
(***************************************************************************)
\* p + k of a position; the first branch is the same sum when no carry leaves byte 1.
PosPlus(p, k) ==
    IF p[1] + k < 256 THEN [p EXCEPT ![1] = p[1] + k] ELSE WrappingAdd(p, U64(k))

Store(mem, p, bs) ==
    LET addrs == [i \in 1..Len(bs) |-> PosPlus(p, i - 1)]
        new == [x \in {addrs[i] : i \in DOMAIN addrs} |->
                    bs[CHOOSE i \in DOMAIN addrs : addrs[i] = x]]
    IN new @@ mem

\* A byte never written reads as 0 (the hole a seek past the end leaves).
ReadByte(mem, p) == IF p \in DOMAIN mem THEN mem[p] ELSE 0
ReadBytes(mem, p, n) == [i \in 1..n |-> ReadByte(mem, PosPlus(p, i - 1))]
ReadU32At(mem, p, E) == Decode(ReadBytes(mem, p, 4), E)
ReadU64At(mem, p, E) == Decode(ReadBytes(mem, p, 8), E)

write_all(w, bs) ==
    [pos |-> PosPlus(w.pos, Len(bs)),
     mem |-> Store(w.mem, w.pos, bs),
     log |-> Append(w.log, [op |-> "write", at |-> w.pos, bytes |-> bs])]

write_u64(w, v, E) == write_all(w, Encode(v, E))
write_u32(w, v, E) == write_all(w, Encode(v, E))

stream_position(w) == w.pos

\* seek(SeekFrom::Start(p)).
seek_start(w, p) ==
    [w EXCEPT !.pos = p, !.log = Append(w.log, [op |-> "seek", to |-> p, ok |-> TRUE])]

\* seek(SeekFrom::Current(off)), off = [neg, mag] a signed 64-bit offset: a target that
\* is negative or overflows is an Err and leaves the position where it was.
seek_current(w, off) ==
    LET t == IF off.neg THEN OverflowingSub(w.pos, off.mag)
                        ELSE OverflowingAdd(w.pos, off.mag)
    IN IF t.overflow
       THEN [w EXCEPT !.log = Append(w.log, [op |-> "seek", to |-> w.pos, ok |-> FALSE])]
       ELSE [w EXCEPT !.pos = t.v,
                      !.log = Append(w.log, [op |-> "seek", to |-> t.v, ok |-> TRUE])]


(***************************************************************************)
(* ContainerHeaderPackage::to_buffer_store_entry                           *)
(***************************************************************************)
CONTAINER_HEADER_PACKAGE_SERIALIZED_SIZE == 32
IO_PACKAGE_FEXPORTMAP_SERIALIZED_SIZE == 72

None == <<>>
Some(v) == <<v>>

\* 0x0 .. 0x8: export_bundle_size, export_count.
write_sizes(self, w, E) ==
    write_u32(write_u64(w, self.export_bundle_size, E), self.export_count, E)

\* 0xc: the bundle count field, the literal 1 (self.export_bundle_count is commented out).
bundle_count_field_written_count(self) == self.export_bundle_count
bundle_count_field(self) == U32(1)

\* 0x10, 0x14: load_order and the padding.
write_order_and_padding(self, w, E) ==
    write_u32(write_u32(w, self.load_order, E), U32(0), E)

\* (base_offset + *curr_offset - writer.stream_position().unwrap()) as u32, taken only
\* when import_ids is not empty. overflow: the u64 sum or difference overflowed.
relative_offset_unguarded(self, w, base, curr) ==
    LET sum == OverflowingAdd(base, curr)
        diff == OverflowingSub(sum.v, stream_position(w))
    IN [opt |-> Some(AsU32(diff.v)), overflow |-> sum.overflow \/ diff.overflow]
relative_offset_from_field_end(self, w, base, curr) ==
    IF Len(self.import_ids) > 0
    THEN LET sum == OverflowingAdd(base, curr)
             diff == OverflowingSub(sum.v, PosPlus(stream_position(w), 4))
         IN [opt |-> Some(AsU32(diff.v)), overflow |-> sum.overflow \/ diff.overflow]
    ELSE [opt |-> None, overflow |-> FALSE]
relative_offset(self, w, base, curr) ==
    IF Len(self.import_ids) > 0
    THEN LET sum == OverflowingAdd(base, curr)
             diff == OverflowingSub(sum.v, stream_position(w))
         IN [opt |-> Some(AsU32(diff.v)), overflow |-> sum.overflow \/ diff.overflow]
    ELSE [opt |-> None, overflow |-> FALSE]

\* 0x18, 0x1c: ImportedPackageCount and RelativeOffsetToImports.
write_count_and_offset(self, w, rel, E) ==
    write_u32(write_u32(w, U32(Len(self.import_ids)), E),
              IF rel = None THEN U32(0) ELSE rel[1], E)

\* The argument of SeekFrom::Current: rel as i64 - 8.
seek_offset_without_field(rel) == [neg |-> FALSE, mag |-> AsU64(rel)]
seek_offset(rel) ==
    IF Lt(rel, U32(8))
    THEN [neg |-> TRUE, mag |-> WrappingSub(U64(8), AsU64(rel))]
    ELSE [neg |-> FALSE, mag |-> WrappingSub(AsU64(rel), U64(8))]

\* for i in &self.import_ids { writer.write_u64::<E>(*i)?; }
RECURSIVE write_import_ids(_, _, _)
write_import_ids(w, ids, E) ==
    IF Len(ids) = 0 THEN w
    ELSE write_import_ids(write_u64(w, Head(ids), E), Tail(ids), E)

\* *curr_offset += 8 * self.import_ids.len() as u64
advance_not_at_all(self, curr) == [v |-> curr, overflow |-> FALSE]
advance_by_count(self, curr) == OverflowingAdd(curr, U64(Len(self.import_ids)))
advance(self, curr) == OverflowingAdd(curr, U64(8 * Len(self.import_ids)))

\* The whole call. result is "Ok", or "Panic" when an overflow check of the build fires;
\* writer and curr_offset are what the call leaves behind.
to_buffer_store_entry(self, w, base, curr, E, checks) ==
    LET w5 == write_order_and_padding(self,
                  write_u32(write_sizes(self, w, E), bundle_count_field(self), E), E)
        rel == relative_offset(self, w5, base, curr)
        w7 == write_count_and_offset(self, w5, rel.opt, E)
        return_ptr == stream_position(w7)
        w8 == seek_current(w7, seek_offset(rel.opt[1]))
        w9 == write_import_ids(w8, self.import_ids, E)
        w10 == seek_start(w9, return_ptr)
        next == advance(self, curr)
    IN IF rel.overflow /\ checks
       THEN [result |-> "Panic", writer |-> w5, curr_offset |-> curr]
       ELSE IF rel.opt = None
       THEN [result |-> "Ok", writer |-> w7, curr_offset |-> curr]
       ELSE IF next.overflow /\ checks
       THEN [result |-> "Panic", writer |-> w10, curr_offset |-> curr]
       ELSE [result |-> "Ok", writer |-> w10, curr_offset |-> next.v]

(***************************************************************************)
(* The inputs of the directory entry writer.                               *)
(***************************************************************************)
MaxCalls == 2

ByteOrders == {"LittleEndian", "BigEndian"}

H1 == <<17, 34, 51, 68, 85, 102, 119, 136>>
H2 == <<1, 0, 0, 0, 0, 0, 0, 0>>
H3 == <<255, 238, 221, 204, 187, 170, 153, 128>>

ImportLists == {<<>>, <<H1>>, <<H2, H1>>, <<H3, H1, H2>>}

\* export_count and export_bundle_count are derived by the constructors, load_order
\* is the 0 both constructors set (lines 412 and 444).
Packages ==
    {[hash |-> H1, export_bundle_size |-> <<8, 7, 6, 5, 4, 3, 2, 1>>,
      export_count |-> U32(5), export_bundle_count |-> U32(3),
      load_order |-> U32(0), import_ids |-> ids] : ids \in ImportLists}
    \cup
    {[hash |-> H2, export_bundle_size |-> U64(4096),
      export_count |-> <<4, 3, 2, 1>>, export_bundle_count |-> U32(1),
      load_order |-> U32(0), import_ids |-> ids] : ids \in {<<>>, <<H3>>}}

StartPositions == {U64(0), U64(64)}
\* Below, inside, right behind and far behind the fixed records; the last is 2^32 + 96.
BaseOffsets ==
    {U64(0), U64(24), U64(28), U64(32), U64(64), U64(128), <<96, 0, 0, 0, 1, 0, 0, 0>>}
CurrOffsets == {U64(0), U64(8)}

EmptyStream == [x \in {} |-> 0]
Idle == [op |-> "idle"]

Init ==
    /\ byte_order \in ByteOrders
    /\ overflow_checks \in BOOLEAN
    /\ writer \in {[pos |-> p, mem |-> EmptyStream] : p \in StartPositions}
    /\ base_offset \in BaseOffsets
    /\ curr_offset \in CurrOffsets
    /\ calls = <<>>
    /\ city_hash = EmptyStream
    /\ obj = Idle
    /\ bundle = Idle
    /\ summary = Idle

Panicked == Len(calls) > 0 /\ calls[Len(calls)].result = "Panic"

\* One call of to_buffer_store_entry on the shared writer and cursor.
StoreEntry ==
    /\ Len(calls) < MaxCalls
    /\ ~Panicked
    /\ \E self \in Packages :
         LET r == to_buffer_store_entry(self, [pos |-> writer.pos, mem |-> writer.mem, log |-> <<>>],
                                        base_offset, curr_offset, byte_order, overflow_checks)
         IN /\ writer' = [pos |-> r.writer.pos, mem |-> r.writer.mem]
            /\ curr_offset' = r.curr_offset
            /\ calls' = Append(calls, [self |-> self,
                                       entry_pos |-> writer.pos,
                                       entry_curr |-> curr_offset,
                                       result |-> r.result,
                                       log |-> r.writer.log,
                                       exit_curr |-> r.curr_offset])
    /\ UNCHANGED <<byte_order, overflow_checks, base_offset, city_hash, obj, bundle, summary>>

Next == StoreEntry

Spec == Init /\ [][Next]_vars

(***************************************************************************)
(* What a reader of the directory sees after a call.                       *)
(***************************************************************************)
HasCall == Len(calls) > 0
Last == calls[Len(calls)]
ImportCount(c) == Len(c.self.import_ids)
CountFieldPos(c) == PosPlus(c.entry_pos, 24)
OffsetFieldPos(c) == PosPlus(c.entry_pos, 28)

\* base_offset + curr_offset on entry, and its distance from the count field, as
\* unbounded integers would give them: exact = FALSE when u64 cannot hold them.
ImportsTarget(c) == OverflowingAdd(base_offset, c.entry_curr)
ImportsDistance(c) ==
    LET d == OverflowingSub(ImportsTarget(c).v, CountFieldPos(c))
    IN [v |-> d.v, exact |-> ~ImportsTarget(c).overflow /\ ~d.overflow]
FitsU32(v) == SubSeq(v, 5, 8) = <<0, 0, 0, 0>>

\* Follow the fixed record: the count at 0x18, the relative offset at 0x1c, then the
\* hashes that many bytes behind the count field.
StoredCount(c) == ReadU32At(writer.mem, CountFieldPos(c), byte_order)
StoredOffset(c) == ReadU32At(writer.mem, OffsetFieldPos(c), byte_order)
StoredHash(c, i) ==
    ReadU64At(writer.mem,
              PosPlus(WrappingAdd(CountFieldPos(c), AsU64(StoredOffset(c))), 8 * (i - 1)),
              byte_order)

RoundTrips(c) ==
    /\ StoredCount(c) = U32(ImportCount(c))
    /\ \A i \in 1..ImportCount(c) : StoredHash(c, i) = c.self.import_ids[i]
    /\ ImportsDistance(c).exact
    /\ FitsU32(ImportsDistance(c).v)
    /\ StoredOffset(c) = AsU32(ImportsDistance(c).v)

\* C1 as stated: every call with a non-empty import list that returns Ok leaves a
\* record from which the count, the relative offset and then the hashes are read
\* back, the offset being (base_offset + curr_offset) minus the count field's position.
C1_RoundTripAlways ==
    (HasCall /\ Last.result = "Ok" /\ ImportCount(Last) > 0) => RoundTrips(Last)

\* The hash array lies behind the fixed record and within reach of a 32-bit offset.
SeparateRegion(c) ==
    /\ ImportsDistance(c).exact
    /\ FitsU32(ImportsDistance(c).v)
    /\ Le(U64(8), ImportsDistance(c).v)

\* C1 amended: the round trip holds for every call with a non-empty import list whose
\* target base_offset + curr_offset is at or behind the end of the fixed record and
\* less than 2^32 bytes behind the count field.
C1_RoundTripSeparateRegion ==
    (HasCall /\ Last.result = "Ok" /\ ImportCount(Last) > 0 /\ SeparateRegion(Last))
        => RoundTrips(Last)

C1_Witness ==
    /\ HasCall /\ Last.result = "Ok" /\ ImportCount(Last) = 3 /\ SeparateRegion(Last)
    /\ StoredHash(Last, 3) = H2

(***************************************************************************)
(* The calls a write log records.                                          *)
(***************************************************************************)
RECURSIVE LogBytes(_)
LogBytes(log) == IF Len(log) = 0 THEN <<>> ELSE Head(log).bytes \o LogBytes(Tail(log))

\* The first k entries of the log are writes, each starting where the last one ended,
\* the first at position p.
Sequential(log, k, p) ==
    /\ Len(log) >= k
    /\ \A j \in 1..k :
         /\ log[j].op = "write"
         /\ log[j].at = PosPlus(p, Len(LogBytes(SubSeq(log, 1, j - 1))))

\* C2: a call with an empty import list writes exactly 0x20 bytes at the writer's
\* position, with count 0 and relative offset 0, seeks nowhere, writes nothing else
\* and leaves curr_offset alone, whatever base_offset and curr_offset are.
C2_EmptyImportList ==
    (HasCall /\ ImportCount(Last) = 0) =>
        /\ Last.result = "Ok"
        /\ Len(Last.log) = 7
        /\ Sequential(Last.log, 7, Last.entry_pos)
        /\ Len(LogBytes(Last.log)) = CONTAINER_HEADER_PACKAGE_SERIALIZED_SIZE
        /\ Decode(Last.log[6].bytes, byte_order) = U32(0)
        /\ Decode(Last.log[7].bytes, byte_order) = U32(0)
        /\ StoredCount(Last) = U32(0)
        /\ StoredOffset(Last) = U32(0)
        /\ writer.pos = PosPlus(Last.entry_pos, CONTAINER_HEADER_PACKAGE_SERIALIZED_SIZE)
        /\ Last.exit_curr = Last.entry_curr
        /\ curr_offset = Last.entry_curr

\* An empty list written while base_offset + curr_offset lies below the writer.
C2_Witness ==
    /\ HasCall /\ ImportCount(Last) = 0 /\ Last.result = "Ok"
    /\ Lt(ImportsTarget(Last).v, Last.entry_pos)
    /\ overflow_checks

\* What C3 says of call k: its n hashes are written from base_offset + (curr_offset
\* on entry) on, curr_offset leaves 8 * n higher, and the next call starts from there.
Threaded(k) ==
    LET c == calls[k]
        n == ImportCount(c)
    IN /\ n > 0 =>
            /\ ~ImportsTarget(c).overflow
            /\ Len(c.log) = 7 + 1 + n + 1
            /\ Sequential(SubSeq(c.log, 9, 8 + n), n, ImportsTarget(c).v)
            /\ LogBytes(SubSeq(c.log, 9, 8 + n)) =
                   LogBytes([i \in 1..n |->
                               [bytes |-> Encode(c.self.import_ids[i], byte_order)]])
            /\ k = Len(calls) =>
                   \A i \in 1..n :
                       ReadU64At(writer.mem, PosPlus(ImportsTarget(c).v, 8 * (i - 1)),
                                 byte_order) = c.self.import_ids[i]
       /\ c.exit_curr = WrappingAdd(c.entry_curr, U64(8 * n))
       /\ ~OverflowingAdd(c.entry_curr, U64(8 * n)).overflow
       /\ k < Len(calls) => calls[k + 1].entry_curr = c.exit_curr
       /\ k = Len(calls) => curr_offset = c.exit_curr

RECURSIVE TotalImports(_)
TotalImports(k) == IF k = 0 THEN 0 ELSE ImportCount(calls[k]) + TotalImports(k - 1)

\* C3 as stated: the above for every call that returns, and after k calls curr_offset
\* is its initial value plus 8 times the number of hashes written.
C3_ThreadedCursor ==
    /\ \A k \in 1..Len(calls) : calls[k].result = "Ok" => Threaded(k)
    /\ (HasCall /\ Last.result = "Ok") =>
           curr_offset = WrappingAdd(calls[1].entry_curr, U64(8 * TotalImports(Len(calls))))

\* The target of call c lies at or behind its count field, less than 2^32 bytes away.
InReach(c) == ImportsDistance(c).exact /\ FitsU32(ImportsDistance(c).v)

\* C3 amended: the same for every call whose target base_offset + curr_offset lies at
\* or behind the position of its importedPackageCount field and less than 2^32 bytes
\* behind it (calls with no hashes write no array and are covered as they are).
C3_ThreadedCursorInReach ==
    /\ \A k \in 1..Len(calls) :
         (calls[k].result = "Ok" /\ (ImportCount(calls[k]) > 0 => InReach(calls[k])))
             => Threaded(k)
    /\ (HasCall /\ \A k \in 1..Len(calls) :
            calls[k].result = "Ok" /\ (ImportCount(calls[k]) > 0 => InReach(calls[k])))
          => curr_offset = WrappingAdd(calls[1].entry_curr, U64(8 * TotalImports(Len(calls))))

\* Two calls with hashes on one cursor, the second starting where the first left it.
C3_Witness ==
    /\ Len(calls) = 2
    /\ \A k \in 1..2 : calls[k].result = "Ok" /\ ImportCount(calls[k]) > 0 /\ InReach(calls[k])
    /\ calls[1].entry_curr = U64(8)
    /\ ImportCount(calls[1]) = 3
    /\ calls[2].entry_curr = U64(32)
    /\ curr_offset = U64(32 + 8 * ImportCount(calls[2]))

\* C4: a call that returns Ok has written, in order and back to back from the
\* writer's position, export_bundle_size (8 bytes), export_count, the literal 1,
\* load_order, 0, the import count and the relative offset (4 bytes each): 0x20 bytes.
C4_FixedRecordLayout ==
    (HasCall /\ Last.result = "Ok") =>
        LET log == Last.log
            E == byte_order
        IN /\ Sequential(log, 7, Last.entry_pos)
           /\ Len(LogBytes(SubSeq(log, 1, 7))) = CONTAINER_HEADER_PACKAGE_SERIALIZED_SIZE
           /\ <<Len(log[1].bytes), Len(log[2].bytes), Len(log[3].bytes), Len(log[4].bytes),
                Len(log[5].bytes), Len(log[6].bytes), Len(log[7].bytes)>>
                = <<8, 4, 4, 4, 4, 4, 4>>
           /\ Decode(log[1].bytes, E) = Last.self.export_bundle_size
           /\ Decode(log[2].bytes, E) = Last.self.export_count
           /\ Decode(log[3].bytes, E) = U32(1)
           /\ Decode(log[4].bytes, E) = Last.self.load_order
           /\ Decode(log[5].bytes, E) = U32(0)
           /\ Decode(log[6].bytes, E) = U32(ImportCount(Last))
           \* the first 0x18 bytes are still on the stream when the call returns
           /\ ReadBytes(writer.mem, Last.entry_pos, 24) = LogBytes(SubSeq(log, 1, 5))

\* A package whose derived export_bundle_count is 3 has been written.
C4_Witness ==
    /\ HasCall /\ Last.result = "Ok"
    /\ Last.self.export_bundle_count = U32(3)
    /\ ReadU32At(writer.mem, PosPlus(Last.entry_pos, 12), byte_order) = U32(1)
    /\ ImportCount(Last) > 0

(***************************************************************************)
(* IoStoreObjectIndex: the 64-bit tagged object reference.                 *)
(***************************************************************************)
\* Bitwise operators on machine integers.
RECURSIVE BitsAnd(_, _, _)
BitsAnd(x, y, n) ==
    IF n = 0 THEN 0
    ELSE (x % 2) * (y % 2) + 2 * BitsAnd(x \div 2, y \div 2, n - 1)

BitAnd(a, b) == [i \in 1..Len(a) |-> BitsAnd(a[i], b[i], 8)]
BitNot(a) == Not(a)
\* a | b = !(!a & !b)
BitOr(a, b) == BitNot(BitAnd(BitNot(a), BitNot(b)))

\* a << k (bits shifted out are lost): whole bytes first, then the k % 8 bits left.
Shl(a, k) ==
    LET moved == [i \in 1..Len(a) |-> IF i <= k \div 8 THEN 0 ELSE a[i - k \div 8]]
        f == 2 ^ (k % 8)
    IN [i \in 1..Len(a) |->
            ((moved[i] * f) % 256) + (IF i > 1 THEN (moved[i - 1] * f) \div 256 ELSE 0)]

\* The enum's values; a String is the sequence of its code points.
Export(i) == [variant |-> "Export", index |-> i]
ScriptImport(v) == [variant |-> "ScriptImport", path |-> v]
PackageImport(v) == [variant |-> "PackageImport", path |-> v]
Empty == [variant |-> "Empty"]

\* String::to_lowercase on the ASCII range the paths below are written in.
to_lowercase(str) ==
    [i \in 1..Len(str) |-> IF str[i] >= 65 /\ str[i] <= 90 THEN str[i] + 32 ELSE str[i]]

\* encode_utf16 of code points of the basic plane, then the Vec<u16> seen as bytes
\* through from_raw_parts: each unit in the byte order of the machine (little endian
\* on the x86-64 targets of the crate).
RECURSIVE utf16_bytes(_)
utf16_bytes(str) ==
    IF Len(str) = 0 THEN <<>>
    ELSE <<Head(str) % 256, Head(str) \div 256>> \o utf16_bytes(Tail(str))

\* hash &= !(3 << 62); hash |= obj_type << 62
generate_hash_unmasked(import, obj_type) ==
    BitOr(city_hash[utf16_bytes(to_lowercase(import))], Shl(U64(obj_type), 62))
generate_hash(import, obj_type) ==
    LET hash == city_hash[utf16_bytes(to_lowercase(import))]
        masked == BitAnd(hash, BitNot(Shl(U64(3), 62)))
    IN BitOr(masked, Shl(U64(obj_type), 62))

\* The u64 to_buffer writes for each variant.
IoStoreObjectIndex_value(self) ==
    CASE self.variant = "Export" -> self.index
      [] self.variant = "ScriptImport" -> generate_hash(self.path, 1)
      [] self.variant = "PackageImport" -> generate_hash(self.path, 2)
      [] self.variant = "Empty" -> <<255, 255, 255, 255, 255, 255, 255, 255>>

\* IoStoreObjectIndex::to_buffer on an empty stream: the bytes it leaves there.
IoStoreObjectIndex_to_buffer(self, E) ==
    write_u64([pos |-> U64(0), mem |-> EmptyStream, log |-> <<>>], IoStoreObjectIndex_value(self), E)

\* let obj_type = raw_value & (3 << 62); match obj_type { 0, 1, 2, 3, _ => panic! }
IoStoreObjectIndex_from_buffer(raw_value) ==
    LET obj_type == BitAnd(raw_value, Shl(U64(3), 62))
    IN CASE obj_type = U64(0) -> [result |-> "Ok", value |-> Export(U64(0))]
         [] obj_type = U64(1) -> [result |-> "Ok", value |-> ScriptImport(<<>>)]
         [] obj_type = U64(2) -> [result |-> "Ok", value |-> PackageImport(<<>>)]
         [] obj_type = U64(3) -> [result |-> "Ok", value |-> Empty]
         [] OTHER -> [result |-> "Panic"]

(***************************************************************************)
(* The inputs of the object index codec.                                   *)
(***************************************************************************)
\* "/S", "/s", "/G"
Paths == {<<47, 83>>, <<47, 115>>, <<47, 71>>}
HashInputs == {utf16_bytes(to_lowercase(v)) : v \in Paths}
\* Hash values with each pattern of the top two bits.
HashValues ==
    {<<1, 2, 3, 4, 5, 6, 7, 63>>, <<8, 7, 6, 5, 4, 3, 2, 64>>, H1,
     <<255, 255, 255, 255, 255, 255, 255, 255>>}

\* 0, 1, 2^62 - 1, 2^62 and 2^64 - 1
ExportIndices ==
    {U64(0), U64(1), <<255, 255, 255, 255, 255, 255, 255, 63>>,
     <<0, 0, 0, 0, 0, 0, 0, 64>>, <<255, 255, 255, 255, 255, 255, 255, 255>>}

Indices ==
    {Export(i) : i \in ExportIndices} \cup {ScriptImport(v) : v \in Paths}
        \cup {PackageImport(v) : v \in Paths} \cup {Empty}

\* 64-bit values a reader may find on a stream it did not write.
RawValues ==
    {U64(0), U64(1), U64(2), U64(3), <<255, 255, 255, 255, 255, 255, 255, 63>>,
     <<0, 0, 0, 0, 0, 0, 0, 64>>, <<1, 2, 3, 4, 5, 6, 7, 127>>,
     <<0, 0, 0, 0, 0, 0, 0, 128>>, H1, <<0, 0, 0, 0, 0, 0, 0, 192>>,
     <<255, 255, 255, 255, 255, 255, 255, 255>>}

InitIndex ==
    /\ byte_order \in ByteOrders
    /\ overflow_checks = FALSE
    /\ writer = [pos |-> U64(0), mem |-> EmptyStream]
    /\ base_offset = U64(0)
    /\ curr_offset = U64(0)
    /\ calls = <<>>
    /\ city_hash \in [HashInputs -> HashValues]
    /\ obj \in {Idle} \cup {[op |-> "stream", stream |-> Encode(r, byte_order)] : r \in RawValues}
    /\ bundle = Idle
    /\ summary = Idle

\* to_buffer of one reference.
ObjToBuffer ==
    /\ obj.op = "idle"
    /\ \E self \in Indices :
         obj' = [op |-> "to_buffer", index |-> self,
                 stream |-> ReadBytes(IoStoreObjectIndex_to_buffer(self, byte_order).mem, U64(0), 8)]
    /\ UNCHANGED <<byte_order, overflow_checks, writer, base_offset, curr_offset, calls,
                   city_hash, bundle, summary>>

\* from_buffer on the eight bytes of the stream: those to_buffer wrote, or foreign ones.
ObjFromBuffer ==
    /\ obj.op \in {"to_buffer", "stream"}
    /\ LET raw_value == Decode(obj.stream, byte_order)
       IN obj' = [op |-> "from_buffer", source |-> obj, raw |-> raw_value,
                  out |-> IoStoreObjectIndex_from_buffer(raw_value)]
    /\ UNCHANGED <<byte_order, overflow_checks, writer, base_offset, curr_offset, calls,
                   city_hash, bundle, summary>>

NextIndex == ObjToBuffer \/ ObjFromBuffer

SpecIndex == InitIndex /\ [][NextIndex]_vars

Top2(v) == v[8] \div 64
Low62(v) == [v EXCEPT ![8] = v[8] % 64]
Tag(variant) ==
    CASE variant = "Export" -> 0
      [] variant = "ScriptImport" -> 1
      [] variant = "PackageImport" -> 2
      [] variant = "Empty" -> 3
AllOnes == <<255, 255, 255, 255, 255, 255, 255, 255>>

\* C5: to_buffer of Empty writes 0xFFFFFFFFFFFFFFFF, and from_buffer of
\* 0xFFFFFFFFFFFFFFFF returns Empty.
C5_EmptySentinel ==
    /\ (obj.op = "to_buffer" /\ obj.index = Empty) =>
           Decode(obj.stream, byte_order) = AllOnes
    /\ (obj.op = "from_buffer" /\ obj.raw = AllOnes) =>
           (obj.out.result = "Ok" /\ obj.out.value = Empty)

\* C6: from_buffer returns a value for every raw value, its variant chosen by the top
\* two bits; so decoding what to_buffer wrote gives back the variant written.
C6_DecodeByTag ==
    obj.op = "from_buffer" =>
        /\ obj.out.result = "Ok"
        /\ Tag(obj.out.value.variant) = Top2(obj.raw)
        /\ obj.source.op = "to_buffer" =>
               obj.out.value.variant = obj.source.index.variant

\* What C7 says of the value written for a reference.
TagLaw(self, value) ==
    /\ Top2(value) = Tag(self.variant)
    /\ self.variant = "Export" => Low62(value) = self.index
    /\ self.variant \in {"ScriptImport", "PackageImport"} =>
           Low62(value) = Low62(city_hash[utf16_bytes(to_lowercase(self.path))])

\* C7 as stated: for every reference the value written has the variant's tag in its
\* top 2 bits and the masked path hash, or the index, in its low 62 bits.
C7_TagLaw ==
    obj.op = "to_buffer" => TagLaw(obj.index, Decode(obj.stream, byte_order))

\* C7 amended: the same for every reference but an Export whose index is 2^62 or more.
C7_TagLawIndexBelow2p62 ==
    (obj.op = "to_buffer"
        /\ (obj.index.variant = "Export" => Top2(obj.index.index) = 0))
        => TagLaw(obj.index, Decode(obj.stream, byte_order))

\* A path whose hash has both top bits set has been written as a ScriptImport.
C7_Witness ==
    /\ obj.op = "to_buffer"
    /\ obj.index = ScriptImport(<<47, 83>>)
    /\ city_hash[<<47, 0, 115, 0>>] = AllOnes
    /\ Decode(obj.stream, byte_order) = <<255, 255, 255, 255, 255, 255, 255, 127>>

(***************************************************************************)
(* ExportBundleHeader4: the export bundle entries and the bundle count.    *)
(***************************************************************************)
\* A reader over the bytes `data`, `pos` bytes in (std::io::Cursor).
Reader(data) == [pos |-> 0, data |-> data]

\* read_u32::<E>: the value and the reader behind it, or UnexpectedEof.
read_u32(r, E) ==
    IF r.pos + 4 <= Len(r.data)
    THEN [ok |-> TRUE, v |-> Decode(SubSeq(r.data, r.pos + 1, r.pos + 4), E),
          r |-> [r EXCEPT !.pos = r.pos + 4]]
    ELSE [ok |-> FALSE, r |-> r]

\* impl TryFrom<u32> for ExportBundleCommandType
try_from_lenient(value) ==
    CASE value = U32(0) -> [ok |-> TRUE, v |-> "Create"]
      [] value = U32(1) -> [ok |-> TRUE, v |-> "Serialize"]
      [] OTHER -> [ok |-> TRUE, v |-> "Count"]
try_from(value) ==
    CASE value = U32(0) -> [ok |-> TRUE, v |-> "Create"]
      [] value = U32(1) -> [ok |-> TRUE, v |-> "Serialize"]
      [] value = U32(2) -> [ok |-> TRUE, v |-> "Count"]
      [] OTHER -> [ok |-> FALSE]

\* for _ in 0..entry_count { read the index, read and convert the command, push }:
\* k entries are in `entries` already.
RECURSIVE read_entries(_, _, _, _, _)
read_entries(r, E, entry_count, k, entries) ==
    IF U32(k) = entry_count THEN [result |-> "Ok", entries |-> entries]
    ELSE LET local_export_index == read_u32(r, E)
             word == read_u32(local_export_index.r, E)
             command_type == try_from(word.v)
         IN IF ~local_export_index.ok \/ ~word.ok THEN [result |-> "Err", error |-> "io"]
            ELSE IF ~command_type.ok THEN [result |-> "Err", error |-> "decode"]
            ELSE read_entries(word.r, E, entry_count, k + 1,
                     Append(entries, [local_export_index |-> local_export_index.v,
                                      command_type |-> command_type.v]))

\* ExportBundleHeader4::from_buffer
ExportBundleHeader4_from_buffer(r, E) ==
    LET first_entry_index == read_u32(r, E)
        entry_count == read_u32(first_entry_index.r, E)
    IN IF ~first_entry_index.ok \/ ~entry_count.ok THEN [result |-> "Err", error |-> "io"]
       ELSE read_entries(entry_count.r, E, entry_count.v, 0, <<>>)

\* ExportBundleHeader4::get_export_bundle_count: the loop from entry k on, count so far.
RECURSIVE count_from(_, _, _, _)
count_from(entries, k, count, checks) ==
    IF k > Len(entries) THEN [result |-> "Ok", count |-> count]
    ELSE LET export_count_maybe == OverflowingAdd(entries[k].local_export_index, U32(1))
         IN IF export_count_maybe.overflow /\ checks THEN [result |-> "Panic"]
            ELSE count_from(entries, k + 1,
                            IF Lt(count, export_count_maybe.v)
                            THEN export_count_maybe.v ELSE count,
                            checks)

get_export_bundle_count_of_entries(entries, checks) ==
    [result |-> "Ok", count |-> U32(Len(entries))]
get_export_bundle_count(entries, checks) == count_from(entries, 1, U32(0), checks)

(***************************************************************************)
(* The inputs of the export bundle decoder.                                *)
(***************************************************************************)
MaxEntries == 4

MaxU32 == <<255, 255, 255, 255>>

\* (local_export_index, command word) pairs as they stand on the stream; the last two
\* command words are outside the set, the very last being 1 in the other byte order.
EntryWords ==
    {<<U32(0), U32(0)>>, <<U32(2), U32(1)>>, <<U32(1), U32(2)>>, <<MaxU32, U32(1)>>,
     <<U32(2), U32(3)>>, <<U32(0), <<0, 0, 0, 1>>>>}

EntryLists == UNION {[1..n -> EntryWords] : n \in 0..MaxEntries}

RECURSIVE entry_bytes(_, _)
entry_bytes(es, E) ==
    IF Len(es) = 0 THEN <<>>
    ELSE Encode(Head(es)[1], E) \o Encode(Head(es)[2], E) \o entry_bytes(Tail(es), E)

\* The bundle as serialized: FirstEntryIndex, EntryCount, the entries.
bundle_bytes(es, entry_count, E) ==
    Encode(U32(7), E) \o Encode(U32(entry_count), E) \o entry_bytes(es, E)

\* Every list with its own length as EntryCount; the short ones also with one more
\* than the stream holds.
BundleInputs ==
    {[entries |-> es, entry_count |-> Len(es)] : es \in EntryLists}
        \cup {[entries |-> es, entry_count |-> Len(es) + 1] :
                es \in {l \in EntryLists : Len(l) <= 1}}

InitBundle ==
    /\ byte_order \in ByteOrders
    /\ overflow_checks \in BOOLEAN
    /\ writer = [pos |-> U64(0), mem |-> EmptyStream]
    /\ base_offset = U64(0)
    /\ curr_offset = U64(0)
    /\ calls = <<>>
    /\ city_hash = EmptyStream
    /\ obj = Idle
    /\ bundle \in {[op |-> "stream", input |-> i] : i \in BundleInputs}
    /\ summary = Idle

\* ExportBundleHeader4::from_buffer on the stream.
BundleFromBuffer ==
    /\ bundle.op = "stream"
    /\ bundle' = [op |-> "from_buffer", input |-> bundle.input,
                  out |-> ExportBundleHeader4_from_buffer(
                              Reader(bundle_bytes(bundle.input.entries,
                                                  bundle.input.entry_count, byte_order)),
                              byte_order)]
    /\ UNCHANGED <<byte_order, overflow_checks, writer, base_offset, curr_offset, calls,
                   city_hash, obj, summary>>

\* get_export_bundle_count on the entries decoded (as from_package_summary does).
BundleCount ==
    /\ bundle.op = "from_buffer"
    /\ bundle.out.result = "Ok"
    /\ bundle' = [op |-> "count", input |-> bundle.input, entries |-> bundle.out.entries,
                  out |-> get_export_bundle_count(bundle.out.entries, overflow_checks)]
    /\ UNCHANGED <<byte_order, overflow_checks, writer, base_offset, curr_offset, calls,
                   city_hash, obj, summary>>

NextBundle == BundleFromBuffer \/ BundleCount

SpecBundle == InitBundle /\ [][NextBundle]_vars

\* The largest local_export_index of a non-empty entry list.
MaxIndex(entries) ==
    CHOOSE m \in {entries[i].local_export_index : i \in 1..Len(entries)} :
        \A i \in 1..Len(entries) : Le(entries[i].local_export_index, m)

\* What C8 says of a count: 0 for no entries, else 1 + the largest index.
CountLaw(entries, out) ==
    /\ out.result = "Ok"
    /\ Len(entries) = 0 => out.count = U32(0)
    /\ Len(entries) > 0 =>
           /\ ~OverflowingAdd(MaxIndex(entries), U32(1)).overflow
           /\ out.count = WrappingAdd(MaxIndex(entries), U32(1))

\* C8 as stated: for every entry list get_export_bundle_count returns 0 when it is
\* empty and otherwise 1 + the largest local_export_index.
C8_BundleCountLaw == bundle.op = "count" => CountLaw(bundle.entries, bundle.out)

\* C8 amended: the same for every entry list whose indices are all below 2^32 - 1.
C8_BundleCountLawBelowMax ==
    (bundle.op = "count"
        /\ \A i \in 1..Len(bundle.entries) : bundle.entries[i].local_export_index # MaxU32)
        => CountLaw(bundle.entries, bundle.out)

\* The indices [0, 2, 1, 2] have been counted as 3.
C8_Witness ==
    /\ bundle.op = "count"
    /\ [i \in 1..Len(bundle.entries) |-> bundle.entries[i].local_export_index]
           = <<U32(0), U32(2), U32(1), U32(2)>>
    /\ bundle.out.result = "Ok"
    /\ bundle.out.count = U32(3)

CommandOf(word) ==
    CASE word = U32(0) -> "Create"
      [] word = U32(1) -> "Serialize"
      [] word = U32(2) -> "Count"
      [] OTHER -> "none"

\* The entries EntryCount announces that are on the stream.
Announced(input) ==
    SubSeq(input.entries, 1,
           IF input.entry_count < Len(input.entries) THEN input.entry_count
           ELSE Len(input.entries))

\* C10: from_buffer maps the command words 0, 1, 2 to Create, Serialize, Count, and
\* a command word outside {0, 1, 2} in any entry makes it return a decode error and
\* no entry list.
C10_ClosedCommandSet ==
    bundle.op = "from_buffer" =>
        LET es == Announced(bundle.input)
            bad == {i \in 1..Len(es) : CommandOf(es[i][2]) = "none"}
        IN /\ bad # {} => bundle.out = [result |-> "Err", error |-> "decode"]
           /\ (bad = {} /\ bundle.input.entry_count = Len(es)) =>
                  /\ bundle.out.result = "Ok"
                  /\ Len(bundle.out.entries) = Len(es)
                  /\ \A i \in 1..Len(es) :
                         /\ bundle.out.entries[i].command_type = CommandOf(es[i][2])
                         /\ bundle.out.entries[i].local_export_index = es[i][1]

\* A bundle whose third entry carries the command word 3 has been refused, the two
\* entries before it being well formed.
C10_Witness ==
    /\ bundle.op = "from_buffer"
    /\ Len(bundle.input.entries) = 3
    /\ bundle.input.entry_count = 3
    /\ bundle.input.entries[1][2] = U32(0)
    /\ bundle.input.entries[2][2] = U32(2)
    /\ bundle.input.entries[3][2] = U32(3)
    /\ bundle.out.result = "Err"

(***************************************************************************)
(* PackageSummaryExports: the three summary offsets and the export count.  *)
(***************************************************************************)
\* reader.seek(SeekFrom::Current(n)) for n >= 0 on a Cursor; the result is dropped.
seek_forward(r, n) == [r EXCEPT !.pos = r.pos + n]

\* The distance each layout skips before the three offsets.
Variants == {"PackageSummary1", "PackageSummary2", "ZenPackageSummaryType1"}

SkipOf(variant) ==
    CASE variant = "PackageSummary1" -> 12
      [] variant = "PackageSummary2" -> 44
      [] variant = "ZenPackageSummaryType1" -> 32

\* PackageIoSummaryDeserialize::to_package_summary of the three layouts.
to_package_summary(variant, r, E) ==
    LET export_offset == read_u32(seek_forward(r, SkipOf(variant)), E)
        export_bundle_offset == read_u32(export_offset.r, E)
        graph_offset == read_u32(export_bundle_offset.r, E)
    IN IF ~export_offset.ok \/ ~export_bundle_offset.ok \/ ~graph_offset.ok
       THEN [result |-> "Err", error |-> "io"]
       ELSE [result |-> "Ok",
             summary |-> [export_offset |-> export_offset.v,
                          export_bundle_offset |-> export_bundle_offset.v,
                          graph_offset |-> graph_offset.v]]

\* a / d for a little-endian a and a small d: long division from the top byte down;
\* DivRem is the remainder left by the bytes above byte i.
RECURSIVE DivRem(_, _, _)
DivRem(a, d, i) ==
    IF i > Len(a) THEN 0 ELSE (DivRem(a, d, i + 1) * 256 + a[i]) % d

Div(a, d) == [i \in 1..Len(a) |-> (DivRem(a, d, i + 1) * 256 + a[i]) \div d]

\* PackageSummaryExports::get_export_count
get_export_count(self, checks) ==
    LET gap == OverflowingSub(self.export_bundle_offset, self.export_offset)
    IN IF gap.overflow /\ checks THEN [result |-> "Panic"]
       ELSE [result |-> "Ok",
             count |-> Div(AsU64(gap.v), IO_PACKAGE_FEXPORTMAP_SERIALIZED_SIZE)]

(***************************************************************************)
(* The inputs of the summary decoders.                                     *)
(***************************************************************************)
HeaderStarts == {0, 16}

ExportOffsets == {U32(256)}

\* 0x100 + 0, + 5 * 0x48, + 0x47, + 0x49, + 0x48 * 0x10000, and one below 0x100.
ExportBundleOffsets ==
    {U32(256), U32(616), U32(327), U32(329), <<0, 1, 72, 0>>, U32(240)}

GraphOffsets == {U32(1024)}

\* A byte that tells its position, for everything the decoders skip.
Filler(n) == [i \in 1..n |-> 1 + (i % 250)]

\* A header of the layout at offset h of the stream, cut short by `cut` bytes.
header_bytes(variant, h, offsets, E, cut) ==
    LET whole == Filler(h + SkipOf(variant)) \o Encode(offsets.export_offset, E)
                     \o Encode(offsets.export_bundle_offset, E)
                     \o Encode(offsets.graph_offset, E)
    IN SubSeq(whole, 1, Len(whole) - cut)

SummaryInputs ==
    {[variant |-> v, h |-> h, cut |-> c,
      offsets |-> [export_offset |-> e, export_bundle_offset |-> b, graph_offset |-> g]] :
        v \in Variants, h \in HeaderStarts, c \in {0, 1},
        e \in ExportOffsets, b \in ExportBundleOffsets, g \in GraphOffsets}

InitSummary ==
    /\ byte_order \in ByteOrders
    /\ overflow_checks \in BOOLEAN
    /\ writer = [pos |-> U64(0), mem |-> EmptyStream]
    /\ base_offset = U64(0)
    /\ curr_offset = U64(0)
    /\ calls = <<>>
    /\ city_hash = EmptyStream
    /\ obj = Idle
    /\ bundle = Idle
    /\ summary \in {[op |-> "stream", input |-> i] : i \in SummaryInputs}

\* to_package_summary with the reader at the header start.
ToPackageSummary ==
    /\ summary.op = "stream"
    /\ LET i == summary.input
           data == header_bytes(i.variant, i.h, i.offsets, byte_order, i.cut)
       IN summary' = [op |-> "to_package_summary", input |-> i,
                      out |-> to_package_summary(i.variant,
                                  seek_forward(Reader(data), i.h), byte_order)]
    /\ UNCHANGED <<byte_order, overflow_checks, writer, base_offset, curr_offset, calls,
                   city_hash, obj, bundle>>

\* get_export_count on the summary decoded.
ExportCount ==
    /\ summary.op = "to_package_summary"
    /\ summary.out.result = "Ok"
    /\ summary' = [op |-> "get_export_count", input |-> summary.input,
                   self |-> summary.out.summary,
                   out |-> get_export_count(summary.out.summary, overflow_checks)]
    /\ UNCHANGED <<byte_order, overflow_checks, writer, base_offset, curr_offset, calls,
                   city_hash, obj, bundle>>

NextSummary == ToPackageSummary \/ ExportCount

SpecSummary == InitSummary /\ [][NextSummary]_vars

\* A 32-bit value below 2^31 as a number.
Nat32(b) == b[1] + 256 * b[2] + 65536 * b[3] + 16777216 * b[4]

Gap(self) == Nat32(self.export_bundle_offset) - Nat32(self.export_offset)

\* C9: the export count of decoded summary offsets (export table at or before the
\* export bundles) is (export_bundle_offset - export_offset) / 0x48 when the gap
\* is a multiple of 0x48, and a layout mismatch is reported instead of a count
\* when it is not.
C9_ExactExportCount ==
    (summary.op = "get_export_count" /\ Gap(summary.self) >= 0) =>
        IF Gap(summary.self) % IO_PACKAGE_FEXPORTMAP_SERIALIZED_SIZE = 0
        THEN /\ summary.out.result = "Ok"
             /\ summary.out.count
                    = U64(Gap(summary.self) \div IO_PACKAGE_FEXPORTMAP_SERIALIZED_SIZE)
        ELSE summary.out.result # "Ok"

(***************************************************************************)
(* The underlying reads, writes and seeks of each operation, in program    *)
(* order, with what the code does with each Result: `?` returns the error  *)
(* to the caller ("try"), .unwrap() panics on it ("unwrap"), and a call    *)
(* statement that drops the Result goes on ("dropped").                    *)
(***************************************************************************)
IoStep(op, on_error) == [op |-> op, on_error |-> on_error]

Repeat(step, n) == [i \in 1..n |-> step]

\* to_package_summary of PackageSummary1, PackageSummary2, ZenPackageSummaryType1:
\* the seek is a statement of its own, the three reads end in `?`.
to_package_summary_io(variant) ==
    <<IoStep("seek", "dropped")>> \o Repeat(IoStep("read", "try"), 3)

\* to_buffer_store_entry for a package with n import ids.
to_buffer_store_entry_io(n) ==
    Repeat(IoStep("write", "try"), 5)
        \o (IF n > 0 THEN <<IoStep("stream_position", "unwrap")>> ELSE <<>>)
        \o Repeat(IoStep("write", "try"), 2)
        \o (IF n > 0
            THEN <<IoStep("stream_position", "unwrap"), IoStep("seek", "dropped")>>
                     \o Repeat(IoStep("write", "try"), n)
                     \o <<IoStep("seek", "dropped")>>
            ELSE <<>>)

\* ObjectExport2::to_buffer: two write_i64 statements, then object_name, the five
\* IoStoreObjectIndex::to_buffer calls (one write_u64 each) and the two flag words.
ObjectExport2_to_buffer_io ==
    Repeat(IoStep("write", "dropped"), 2) \o Repeat(IoStep("write", "try"), 8)

\* The operation run on a stream whose k-th call fails for the k in faults, from
\* step k on: how it ends, how many calls it made and which of them failed.
RECURSIVE run_io(_, _, _)
run_io(steps, faults, k) ==
    IF k > Len(steps)
    THEN [result |-> "Ok", executed |-> Len(steps), failed |-> faults]
    ELSE IF k \notin faults \/ steps[k].on_error = "dropped"
    THEN run_io(steps, faults, k + 1)
    ELSE [result |-> IF steps[k].on_error = "try" THEN "Err" ELSE "Panic",
          executed |-> k, failed |-> {f \in faults : f <= k}]

MaxFaults == 2

FaultSets(steps) ==
    {f \in SUBSET (1..Len(steps)) : Cardinality(f) <= MaxFaults}

InitIo ==
    /\ byte_order \in ByteOrders
    /\ overflow_checks \in BOOLEAN
    /\ writer = [pos |-> U64(0), mem |-> EmptyStream]
    /\ base_offset = U64(0)
    /\ curr_offset = U64(0)
    /\ calls = <<>>
    /\ city_hash = EmptyStream
    /\ obj = Idle
    /\ bundle = Idle
    /\ summary = Idle

\* One call of an operation on a stream with the given faults.
io_call(operation, steps, faults) ==
    [operation |-> operation, steps |-> steps, faults |-> faults,
     out |-> run_io(steps, faults, 1)]

SummaryIo ==
    /\ calls = <<>>
    /\ \E variant \in Variants :
           \E faults \in FaultSets(to_package_summary_io(variant)) :
               calls' = <<io_call(variant, to_package_summary_io(variant), faults)>>
    /\ UNCHANGED <<byte_order, overflow_checks, writer, base_offset, curr_offset,
                   city_hash, obj, bundle, summary>>

StoreEntryIo ==
    /\ calls = <<>>
    /\ \E import_ids \in ImportLists :
           \E faults \in FaultSets(to_buffer_store_entry_io(Len(import_ids))) :
               calls' = <<io_call("to_buffer_store_entry",
                                  to_buffer_store_entry_io(Len(import_ids)), faults)>>
    /\ UNCHANGED <<byte_order, overflow_checks, writer, base_offset, curr_offset,
                   city_hash, obj, bundle, summary>>

ObjectExportIo ==
    /\ calls = <<>>
    /\ \E faults \in FaultSets(ObjectExport2_to_buffer_io) :
           calls' = <<io_call("ObjectExport2::to_buffer", ObjectExport2_to_buffer_io,
                              faults)>>
    /\ UNCHANGED <<byte_order, overflow_checks, writer, base_offset, curr_offset,
                   city_hash, obj, bundle, summary>>

NextIo == SummaryIo \/ StoreEntryIo \/ ObjectExportIo

SpecIo == InitIo /\ [][NextIo]_vars

\* C12: in the summary decoders, to_buffer_store_entry and the export record
\* serializer a failed read, write or seek ends the operation with an error returned
\* to the caller; no call on the stream follows a failed one.
C12_IoFailurePropagated ==
    \A i \in 1..Len(calls) :
        calls[i].out.failed # {} =>
            /\ calls[i].out.result = "Err"
            /\ \A f \in calls[i].out.failed : f = calls[i].out.executed

(***************************************************************************)
(* FGraphPackage and ContainerHeaderPackage::from_header_package.          *)
(***************************************************************************)
\* read_u64::<E>: the value and the reader behind it, or UnexpectedEof.
read_u64(r, E) ==
    IF r.pos + 8 <= Len(r.data)
    THEN [ok |-> TRUE, v |-> Decode(SubSeq(r.data, r.pos + 1, r.pos + 8), E),
          r |-> [r EXCEPT !.pos = r.pos + 8]]
    ELSE [ok |-> FALSE, r |-> r]

\* reader.seek(SeekFrom::Start(off)) for a 64-bit off. A Cursor takes any position;
\* one at or behind the end of the data reads as UnexpectedEof wherever it is, so
\* such a position is kept as the end of the data.
reader_seek_start(r, off) ==
    LET len == FromNat(Len(r.data), 8)
    IN [r EXCEPT !.pos = IF Lt(off, len)
                         THEN CHOOSE n \in 0..Len(r.data) : FromNat(n, 8) = off
                         ELSE Len(r.data)]

\* for _ in 0..external_arc_count { FGraphExternalArc::from_buffer }: two read_u32
\* .unwrap() each; k arcs are read already.
RECURSIVE read_arcs(_, _, _, _)
read_arcs(r, E, external_arc_count, k) ==
    IF U32(k) = external_arc_count THEN [ok |-> TRUE, r |-> r]
    ELSE LET from_export_bundle_index == read_u32(r, E)
             to_export_bundle_index == read_u32(from_export_bundle_index.r, E)
         IN IF ~from_export_bundle_index.ok \/ ~to_export_bundle_index.ok
            THEN [ok |-> FALSE]
            ELSE read_arcs(to_export_bundle_index.r, E, external_arc_count, k + 1)

\* FGraphPackage::from_buffer; ok is FALSE where an .unwrap() panics.
FGraphPackage_from_buffer(r, E) ==
    LET imported_package_id == read_u64(r, E)
        external_arc_count == read_u32(imported_package_id.r, E)
        external_arcs == read_arcs(external_arc_count.r, E, external_arc_count.v, 0)
    IN IF ~imported_package_id.ok \/ ~external_arc_count.ok \/ ~external_arcs.ok
       THEN [ok |-> FALSE]
       ELSE [ok |-> TRUE, imported_package_id |-> imported_package_id.v,
             r |-> external_arcs.r]

\* for _ in 0..imported_package_count { import_ids.push(from_buffer(..).imported_package_id) }
RECURSIVE read_import_ids(_, _, _, _, _)
read_import_ids(r, E, imported_package_count, k, import_ids) ==
    IF U32(k) = imported_package_count THEN [ok |-> TRUE, import_ids |-> import_ids]
    ELSE LET package == FGraphPackage_from_buffer(r, E)
         IN IF ~package.ok THEN [ok |-> FALSE]
            ELSE read_import_ids(package.r, E, imported_package_count, k + 1,
                                 Append(import_ids, package.imported_package_id))

\* The count at the reader and the ids of that many graph packages behind it.
graph_import_ids(r, E) ==
    LET imported_package_count == read_u32(r, E)
    IN IF ~imported_package_count.ok THEN [ok |-> FALSE]
       ELSE read_import_ids(imported_package_count.r, E, imported_package_count.v,
                            0, <<>>)

\* ContainerHeaderPackage::from_header_package
from_header_package(reader, hash, size, E, checks) ==
    LET export_offset == read_u32(reader_seek_start(reader, U64(44)), E)
        export_bundle_offset == read_u32(export_offset.r, E)
        graph_offset == read_u32(export_bundle_offset.r, E)
        gap == OverflowingSub(export_bundle_offset.v, export_offset.v)
        export_count == Div(gap.v, IO_PACKAGE_FEXPORTMAP_SERIALIZED_SIZE)
        export_bundle_count_serialized ==
            read_u32(reader_seek_start(graph_offset.r,
                         WrappingAdd(AsU64(export_bundle_offset.v), U64(4))), E)
        export_bundle_count ==
            OverflowingSub(export_bundle_count_serialized.v, export_count)
        import_ids ==
            graph_import_ids(reader_seek_start(export_bundle_count_serialized.r,
                                               AsU64(graph_offset.v)), E)
    IN IF ~export_offset.ok \/ ~export_bundle_offset.ok \/ ~graph_offset.ok
       THEN [result |-> "Panic"]
       ELSE IF gap.overflow /\ checks THEN [result |-> "Panic"]
       ELSE IF ~export_bundle_count_serialized.ok THEN [result |-> "Panic"]
       ELSE IF export_bundle_count.overflow /\ checks THEN [result |-> "Panic"]
       ELSE IF ~import_ids.ok THEN [result |-> "Panic"]
       ELSE [result |-> "Ok",
             package |-> [hash |-> hash, export_bundle_size |-> size,
                          export_count |-> export_count,
                          export_bundle_count |-> export_bundle_count.v,
                          load_order |-> U32(0),
                          import_ids |-> import_ids.import_ids]]

(***************************************************************************)
(* The package files given to from_header_package and from_package_summary.*)
(***************************************************************************)
\* Serialized export bundle entries: <<local_export_index, command word>>.
PackageEntryLists ==
    {<<>>,
     <<<<U32(0), U32(0)>>>>,
     <<<<U32(0), U32(0)>>, <<U32(1), U32(1)>>>>,
     <<<<U32(0), U32(0)>>, <<U32(2), U32(1)>>, <<U32(1), U32(2)>>>>}

\* Dependency graphs: the imported package id and the number of external arcs.
Graphs ==
    {<<>>,
     <<[id |-> H1, arcs |-> 0]>>,
     <<[id |-> H2, arcs |-> 1], [id |-> H1, arcs |-> 0]>>,
     <<[id |-> H3, arcs |-> 0], [id |-> H1, arcs |-> 2], [id |-> H2, arcs |-> 0]>>}

\* The number of export map entries; -1 stands for a header whose export map offset
\* lies one entry behind its export bundle offset.
ExportCounts == {-1, 0, 1, 2}

RECURSIVE graph_bytes(_, _)
graph_bytes(graph, E) ==
    IF Len(graph) = 0 THEN <<>>
    ELSE Encode(Head(graph).id, E) \o Encode(U32(Head(graph).arcs), E)
             \o entry_bytes([i \in 1..Head(graph).arcs |-> <<U32(i), U32(0)>>], E)
             \o graph_bytes(Tail(graph), E)

\* The offsets of a package, from the start of its header: the export map follows
\* the summary, the export bundle header follows the export map, the graph follows
\* the bundle entries.
Layout(p) ==
    LET map == SkipOf(p.variant) + 20
        bundles == map + IO_PACKAGE_FEXPORTMAP_SERIALIZED_SIZE
                             * (IF p.exports < 0 THEN 0 ELSE p.exports)
    IN [export_offset |-> IF p.exports < 0
                          THEN bundles + IO_PACKAGE_FEXPORTMAP_SERIALIZED_SIZE
                          ELSE map,
        export_bundle_offset |-> bundles,
        graph_offset |-> bundles + 8 + 8 * Len(p.entries)]

\* The file: h bytes in front of the header, the summary with its three offsets,
\* the export map, the bundle header with its entries, the graph; `cut` bytes short.
package_bytes(p, E) ==
    LET l == Layout(p)
        summary_bytes == Filler(p.h + SkipOf(p.variant))
                             \o Encode(U32(l.export_offset), E)
                             \o Encode(U32(l.export_bundle_offset), E)
                             \o Encode(U32(l.graph_offset), E)
        whole == summary_bytes
                     \o Filler(p.h + l.export_bundle_offset - Len(summary_bytes))
                     \o bundle_bytes(p.entries, Len(p.entries), E)
                     \o Encode(U32(Len(p.graph)), E) \o graph_bytes(p.graph, E)
    IN SubSeq(whole, 1, Len(whole) - p.cut)

PackageInputs ==
    {[variant |-> v, h |-> h, exports |-> n, entries |-> es, graph |-> g, cut |-> c,
      hash |-> H3, size |-> U64(4096)] :
        v \in Variants, h \in HeaderStarts, n \in ExportCounts,
        es \in PackageEntryLists, g \in Graphs, c \in {0, 1}}

InitPackage ==
    /\ byte_order \in ByteOrders
    /\ overflow_checks \in BOOLEAN
    /\ writer = [pos |-> U64(0), mem |-> EmptyStream]
    /\ base_offset = U64(0)
    /\ curr_offset = U64(0)
    /\ calls = <<>>
    /\ city_hash = EmptyStream
    /\ obj = Idle
    /\ bundle = Idle
    /\ summary \in {[op |-> "file", input |-> i] : i \in PackageInputs}

\* from_header_package on a file that starts with a PackageSummary2 header
\* ("beginning of IO store package").
FromHeaderPackage ==
    /\ summary.op = "file"
    /\ summary.input.variant = "PackageSummary2"
    /\ summary.input.h = 0
    /\ summary' = [op |-> "from_header_package", input |-> summary.input,
                   out |-> from_header_package(
                               Reader(package_bytes(summary.input, byte_order)),
                               summary.input.hash, summary.input.size,
                               byte_order, overflow_checks)]
    /\ UNCHANGED <<byte_order, overflow_checks, writer, base_offset, curr_offset, calls,
                   city_hash, obj, bundle>>

\* The package ids of a graph, in order.
GraphIds(graph) == [i \in 1..Len(graph) |-> graph[i].id]

\* C13: from_header_package on a whole file whose export map lies before its export
\* bundles returns export_count = gap / 0x48, export_bundle_count = the entry-count
\* field minus export_count as integers (no wrap-around, no abort), the graph's
\* package ids in order as import_ids, and load_order 0.
C13_ShallowPath ==
    (summary.op = "from_header_package" /\ summary.input.cut = 0
        /\ summary.input.exports >= 0) =>
        /\ summary.out.result = "Ok"
        /\ summary.out.package.export_count = U32(summary.input.exports)
        /\ Len(summary.input.entries) - summary.input.exports >= 0
        /\ summary.out.package.export_bundle_count
               = U32(Len(summary.input.entries) - summary.input.exports)
        /\ summary.out.package.import_ids = GraphIds(summary.input.graph)
        /\ summary.out.package.load_order = U32(0)

(***************************************************************************)
(* ContainerHeaderPackage::from_package_summary.                           *)
(***************************************************************************)
\* type Endian = byteorder::NativeEndian, on the little-endian targets of the crate.
NativeEndian == "LittleEndian"

\* from_package_summary::<ExportBundleHeader4, TSummary, _, TByteOrder>; every
\* .unwrap() that meets an Err, and every overflow a checked build traps, is a panic.
from_package_summary(variant, file_reader, hash, size, TByteOrder, checks) ==
    LET package_summary == to_package_summary(variant, file_reader, TByteOrder)
        export_count == get_export_count(package_summary.summary, checks)
        export_bundles ==
            ExportBundleHeader4_from_buffer(
                reader_seek_start(file_reader,
                    AsU64(package_summary.summary.export_bundle_offset)),
                NativeEndian)
        export_bundle_count == get_export_bundle_count(export_bundles.entries, checks)
        import_ids ==
            graph_import_ids(
                reader_seek_start(file_reader,
                    AsU64(package_summary.summary.graph_offset)),
                NativeEndian)
    IN IF package_summary.result # "Ok" THEN [result |-> "Panic"]
       ELSE IF export_count.result # "Ok" THEN [result |-> "Panic"]
       ELSE IF export_bundles.result # "Ok" THEN [result |-> "Panic"]
       ELSE IF export_bundle_count.result # "Ok" THEN [result |-> "Panic"]
       ELSE IF ~import_ids.ok THEN [result |-> "Panic"]
       ELSE [result |-> "Ok",
             package |-> [hash |-> hash, export_bundle_size |-> size,
                          export_count |-> AsU32(export_count.count),
                          export_bundle_count |-> export_bundle_count.count,
                          load_order |-> U32(0),
                          import_ids |-> import_ids.import_ids]]

\* from_package_summary with the reader at the start of the header, h bytes into
\* the file.
FromPackageSummary ==
    /\ summary.op = "file"
    /\ summary' = [op |-> "from_package_summary", input |-> summary.input,
                   out |-> from_package_summary(
                               summary.input.variant,
                               seek_forward(
                                   Reader(package_bytes(summary.input, byte_order)),
                                   summary.input.h),
                               summary.input.hash, summary.input.size,
                               byte_order, overflow_checks)]
    /\ UNCHANGED <<byte_order, overflow_checks, writer, base_offset, curr_offset, calls,
                   city_hash, obj, bundle>>

NextPackage == FromHeaderPackage \/ FromPackageSummary

SpecPackage == InitPackage /\ [][NextPackage]_vars

\* C14: from_package_summary with the reader at the header start h of a whole file
\* (export map before the export bundles) reads the offsets at h + the layout's skip
\* distance, so export_count is the number of export map entries; export_bundle_count
\* is the bundle-count law of the entries at h + export_bundle_offset, and import_ids
\* are the package ids of the graph at h + graph_offset, in order.
C14_FullPathHeaderRelative ==
    (summary.op = "from_package_summary" /\ summary.input.cut = 0
        /\ summary.input.exports >= 0) =>
        /\ summary.out.result = "Ok"
        /\ summary.out.package.export_count = U32(summary.input.exports)
        /\ CountLaw([i \in 1..Len(summary.input.entries) |->
                        [local_export_index |-> summary.input.entries[i][1]]],
                    [result |-> "Ok",
                     count |-> summary.out.package.export_bundle_count])
        /\ summary.out.package.import_ids = GraphIds(summary.input.graph)

(***************************************************************************)
(* The byte ranges the to_buffer_store_entry calls of a run have written.  *)
(***************************************************************************)
\* The ranges [lo, hi) of the writes of call c from log entry `first` on.
WritesFrom(c, first) ==
    {[lo |-> c.log[m].at, hi |-> PosPlus(c.log[m].at, Len(c.log[m].bytes))] :
        m \in {m \in first..Len(c.log) : c.log[m].op = "write"}}

Writes(c) == WritesFrom(c, 1)

\* The writes behind the seven of the fixed record: the hash array.
HashWrites(c) == WritesFrom(c, 8)

Disjoint(w, v) == Le(w.hi, v.lo) \/ Le(v.hi, w.lo)

\* The calls so far, the first at position s: each returned with its fixed record
\* in [s + 0x20 (j - 1), s + 0x20 j) and the writer behind it; every hash array lies
\* at or behind base_offset; no write of a call touches a byte an earlier call wrote.
NoClobbering ==
    LET s == calls[1].entry_pos
    IN /\ \A j \in 1..Len(calls) :
            /\ calls[j].result = "Ok"
            /\ calls[j].entry_pos
                   = PosPlus(s, CONTAINER_HEADER_PACKAGE_SERIALIZED_SIZE * (j - 1))
            /\ Sequential(calls[j].log, 7, calls[j].entry_pos)
            /\ Len(LogBytes(SubSeq(calls[j].log, 1, 7)))
                   = CONTAINER_HEADER_PACKAGE_SERIALIZED_SIZE
            /\ \A w \in HashWrites(calls[j]) : Le(base_offset, w.lo)
       /\ writer.pos = PosPlus(s, CONTAINER_HEADER_PACKAGE_SERIALIZED_SIZE * Len(calls))
       /\ \A i \in 1..Len(calls) : \A j \in (i + 1)..Len(calls) :
              \A v \in Writes(calls[i]) : \A w \in Writes(calls[j]) : Disjoint(v, w)

\* base_offset >= s + 0x20 * k for the k calls so far.
BaseBehindRecords ==
    Le(PosPlus(calls[1].entry_pos, CONTAINER_HEADER_PACKAGE_SERIALIZED_SIZE * Len(calls)),
       base_offset)

\* C15 as stated: k calls on one writer from position s, with one base_offset
\* >= s + 0x20 * k and one threaded curr_offset, leave the fixed records back to back
\* from s, the hash arrays disjoint at or behind base_offset, and nothing overwritten.
C15_NoClobbering == (HasCall /\ BaseBehindRecords) => NoClobbering

\* The hash array of call c ends within the 64-bit positions.
ArrayFits(c) == ~OverflowingAdd(ImportsTarget(c).v, U64(8 * ImportCount(c))).overflow

\* C15 amended: the same when, in addition, every call with hashes has its target
\* base_offset + curr_offset less than 2^32 bytes behind its importedPackageCount
\* field, and its array ends below 2^64.
C15_NoClobberingInReach ==
    (HasCall /\ BaseBehindRecords
        /\ \A j \in 1..Len(calls) :
               ImportCount(calls[j]) > 0 => (InReach(calls[j]) /\ ArrayFits(calls[j])))
        => NoClobbering

\* Two calls with hashes from position 0 with base_offset 0x40: the first call's
\* three hashes stand at 0x40, the second call's behind them.
C15_Witness ==
    /\ Len(calls) = 2
    /\ calls[1].entry_pos = U64(0)
    /\ base_offset = U64(64)
    /\ calls[1].entry_curr = U64(0)
    /\ ImportCount(calls[1]) = 3
    /\ ImportCount(calls[2]) > 0
    /\ writer.pos = U64(64)
    /\ ReadU64At(writer.mem, U64(64), byte_order) = calls[1].self.import_ids[1]
    /\ ReadU64At(writer.mem, U64(88), byte_order) = calls[2].self.import_ids[1]
==========================================================================
